---- MODULE Spec2Model ----
(***************************************************************************)
(* privexctl (src/tools/privexctl.c): a relay with two modes.              *)
(*   load <port>  reads lines from stdin and writes each one to a loopback *)
(*                TCP connection, waiting with epoll for writability.      *)
(*   dump <port>  waits with epoll and copies what it reads from the       *)
(*                socket to stdout.                                        *)
(* The model runs one load process and one dump process on the same port.  *)
(* Every process has its own copy of the three file-scope variables, so    *)
(* privex_sockfd, privex_epollfd and privex_port are functions of the      *)
(* process.  One action is one step of the code between two system calls.  *)
(***************************************************************************)
EXTENDS Integers, Sequences, FiniteSets, TLC

\* ------------------------------------------------------------------ bounds
\* Longest record body (bytes before the delimiter) and most records on stdin.
MaxBody == 2
MaxRecords == 2

\* -------------------------------------------------------- program constants
EXIT_SUCCESS == 0
EXIT_FAILURE == 1
\* The delimiter getline splits on.
Delim == 10
\* echo_data's buffer capacity.
buffLen == 8192

Proc == {"load", "dump"}
\* The port both processes are given on the command line.
Ports == {9001}

\* A record: k body bytes 1..k (distinct, so that a skipped, repeated or
\* reordered byte shows), then the delimiter, which getline keeps.
Record(k) == [i \in 1..(k + 1) |-> IF i <= k THEN i ELSE Delim]
Records == {Record(k) : k \in 0..MaxBody}
Inputs == UNION {[1..n -> Records] : n \in 0..MaxRecords}

RECURSIVE Flatten(_)
Flatten(ss) == IF ss = <<>> THEN <<>> ELSE Head(ss) \o Flatten(Tail(ss))

Min(a, b) == IF a < b THEN a ELSE b

VARIABLES
    \* --- environment
    start,          \* where the dump process starts: "dump" (main) or "echo_data"
    collector,      \* another process (the collector) listens on the port
    input,          \* what stdin of load held at the start
    stdin,          \* the records load has not read yet
    wire,           \* bytes load's writes put on the connection to dump, not yet read
    output,         \* dump's stdout
    listening,      \* dump's socket is bound and listening
    \* --- per process
    pc,
    privex_sockfd,
    privex_epollfd,
    privex_port,
    open,           \* descriptors the process opened and has not closed
    registered,     \* descriptors in the interest list of the process's epoll instance
    nReadyFDs,
    setupRet,       \* value returned by setup_privex_client / setup_privex_server
    exit,           \* exit status of the process, -1 until main returns
    \* --- load's locals
    line, readlen, result,
    sendBuff, sendBuffLen, remaining, written, tellRet,
    \* --- dump's locals
    readBuff, numRead, numWritten, echoRet,
    \* --- history (written, never read by the program): a record with
    \*   told, tellRets   the records passed to tell_privex, the values it returned
    \*   sent, writes     bytes accepted, and writes that accepted some, in this send
    \*   connects         calls of setup_privex_client
    \*   fatal            an epoll_wait or write error has ended a send
    \*   fatalConnects    the value of connects at that error
    \*   fault            a system call that could have succeeded was made to fail
    \*   raced            connect was refused while dump was running, not yet listening
    \*   stepsOk, opened  per process: steps done, descriptors opened, in this setup call
    \*   serverSetups     calls of setup_privex_server
    \*   accepted         bytes stdout took in this echo_data call
    \*   fatalPath        this echo_data call took a close-both error block
    \*   badWait          an epoll_wait was issued on a descriptor that is not open
    \*   callConnects     calls of connect() made by this tell_privex call
    \*   ioDone           this tell_privex call has issued an epoll_wait or a write
    \*   entryHandle      <<privex_sockfd, privex_epollfd>> of load on entry to tell_privex
    \*   readCalled       this echo_data call has issued its read
    hist

envVars == <<start, collector, input>>
ioVars == <<stdin, wire, output, listening>>
fdVars == <<privex_sockfd, privex_epollfd, open, registered>>
loadLocals == <<line, readlen, result, sendBuff, sendBuffLen, remaining, written, tellRet>>
dumpLocals == <<readBuff, numRead, numWritten, echoRet>>
vars == <<envVars, ioVars, pc, fdVars, privex_port, nReadyFDs, setupRet, exit,
          loadLocals, dumpLocals, hist>>

\* ---------------------------------------------------------------- helpers

\* Faulty variant of NeedSetup: a connection is set up for every record.
NeedSetup_Always(sockfd, epollfd) == TRUE

\* The test at the head of tell_privex and echo_data.
NeedSetup(sockfd, epollfd) == sockfd < 0 \/ epollfd < 0

\* The kernel hands out the lowest descriptor not in use; 0, 1 and 2 are the
\* standard streams.
NewFd(S) == CHOOSE n \in 3..(3 + Cardinality(S)) :
                n \notin S /\ \A m \in 3..(n - 1) : m \in S

\* Faulty variant of Close: the descriptor is never released.
Close_Leak(S, fd) == S

\* close(fd)
Close(S, fd) == S \ {fd}

\* epoll_wait(epfd, &ev, 1, -1): -1 on error, else the number of ready
\* descriptors (at most maxevents = 1).  A descriptor that is not open is
\* EBADF: the call can only fail.
EpollWaitResults(epfd, S) == IF epfd \in S THEN {-1, 0, 1} ELSE {-1}

\* write(fd, buf, count): -1 on error, else the number of bytes accepted.
WriteResults(count) == (-1)..count

\* Faulty variant of WriteStart: every write starts at the head of the record.
WriteStart_Zero(len, rem) == 0

\* The index (0-based) tell_privex writes from: &sendBuff[sendBuffLen-remaining].
WriteStart(len, rem) == len - rem

\* The bytes buf[from .. from+n-1], from 0-based.
Bytes(buf, from, n) == SubSeq(buf, from + 1, from + n)

\* fwrite(ptr, size, nmemb, stream) returns the number of whole items written.
FwriteItems(accepted, size) == accepted \div size

\* connect() to the port can succeed only if somebody listens there.
CanConnect == collector \/ listening

Set(f, p, v) == [f EXCEPT ![p] = v]
H(field, v) == [hist EXCEPT ![field] = v]

\* Faulty variant of CallsGetline: the loop forgets to test result.
CallsGetline_Always(res) == TRUE

\* Line 141, left operand of &&: getline is called only while result is success.
CallsGetline(res) == res = EXIT_SUCCESS

\* getline(&line, &len, stdin): -1 at end of input, else the length of the line
\* read, delimiter included.
Getline(in) == IF in = <<>> THEN -1 ELSE Len(Head(in))

\* Faulty variant of GotLine: end of input tested against 0 instead of -1.
GotLine_Zero(rl) == rl # 0

\* Line 141, right operand of &&.
GotLine(rl) == rl # -1

\* Faulty variant of WaitFailed: a count of 0 taken for an error too.
WaitFailed_Le(n) == n <= 0

\* Lines 105 and 263: the test for an epoll_wait error.
WaitFailed(n) == n = -1

\* Faulty variant of Ready: a count of 0 taken for readiness.
Ready_Ge(n) == n >= 0

\* Faulty variant of Ready: more than one ready descriptor asked for, of one.
Ready_GtOne(n) == n > 1

\* Lines 115 and 269: something is ready.
Ready(n) == n > 0

\* Faulty variant of SetupFailed: the value of the setup function is ignored.
SetupFailed_Never(r) == FALSE

\* Lines 90 and 217: the setup function did not return success.
SetupFailed(r) == r # EXIT_SUCCESS

\* Faulty variant of Remaining: the count restarts from the record length.
Remaining_FromLen(len, rem, w) == len - w

\* Line 126: remaining -= (size_t)written.  write accepts at most the count
\* it is given, so the unsigned subtraction does not wrap; a wrap would show
\* here as a negative value.
Remaining(len, rem, w) == rem - w

\* Faulty variant of Teardown: only the socket half is torn down.
Teardown_SocketOnly(p) ==
    /\ open' = Set(open, p, Close(open[p], privex_sockfd[p]))
    /\ registered' = Set(registered, p, {})
    /\ privex_sockfd' = Set(privex_sockfd, p, -1)
    /\ UNCHANGED privex_epollfd

\* Faulty variant of Teardown: both descriptors closed, the fields not reset.
Teardown_NoReset(p) ==
    /\ open' = Set(open, p, Close(Close(open[p], privex_sockfd[p]), privex_epollfd[p]))
    /\ registered' = Set(registered, p, {})
    /\ UNCHANGED <<privex_sockfd, privex_epollfd>>

\* The error block of lines 107-110 (also 74-77, 119-122, 204-207, 229-232,
\* 240-243): close(privex_sockfd); privex_sockfd = -1; close(privex_epollfd);
\* privex_epollfd = -1.  Closing a socket takes it off the interest list.
Teardown(p) ==
    /\ open' = Set(open, p, Close(Close(open[p], privex_sockfd[p]), privex_epollfd[p]))
    /\ registered' = Set(registered, p, {})
    /\ privex_sockfd' = Set(privex_sockfd, p, -1)
    /\ privex_epollfd' = Set(privex_epollfd, p, -1)

\* ------------------------------------------------------------------- Init

InitCommon ==
    /\ collector \in BOOLEAN
    /\ input \in Inputs
    /\ stdin = input
    /\ wire = <<>>
    /\ output = <<>>
    /\ listening = FALSE
    /\ privex_sockfd = [p \in Proc |-> -1]
    /\ privex_epollfd = [p \in Proc |-> -1]
    /\ open = [p \in Proc |-> {}]
    /\ registered = [p \in Proc |-> {}]
    /\ setupRet = [p \in Proc |-> EXIT_SUCCESS]
    /\ exit = [p \in Proc |-> -1]
    /\ line = <<>> /\ readlen = 0 /\ result = EXIT_SUCCESS
    /\ sendBuff = <<>> /\ sendBuffLen = 0 /\ remaining = 0 /\ written = 0
    /\ tellRet = EXIT_SUCCESS
    /\ readBuff = <<>> /\ numRead = 0 /\ numWritten = 0 /\ echoRet = EXIT_SUCCESS
    /\ hist = [told |-> <<>>, tellRets |-> <<>>, sent |-> <<>>, connects |-> 0,
               writes |-> 0, fatal |-> FALSE, fatalConnects |-> 0, fault |-> FALSE,
               raced |-> FALSE, callConnects |-> 0, ioDone |-> FALSE,
               entryHandle |-> <<-1, -1>>, readCalled |-> FALSE,
               stepsOk |-> [p \in Proc |-> 0], opened |-> [p \in Proc |-> {}],
               serverSetups |-> 0, accepted |-> 0, fatalPath |-> FALSE,
               badWait |-> FALSE]

\* main(): both processes at the head of load() and dump().
InitMain ==
    /\ InitCommon
    /\ start = "dump"
    /\ pc = [p \in Proc |-> p]
    /\ privex_port = [p \in Proc |-> -1]
    /\ nReadyFDs = [p \in Proc |-> 0]

\* The receive path on its own: dump at its call of echo_data (line 270, after
\* a wait that reported one ready descriptor) with the handle as the program
\* initialises it.  From main the call is not reached (dump's first wait is
\* on privex_epollfd = -1), so what echo_data does is explored from here.
InitReceive ==
    /\ InitCommon
    /\ start = "echo_data"
    /\ \E port \in Ports :
          privex_port = [p \in Proc |-> IF p = "dump" THEN port ELSE -1]
    /\ pc = [p \in Proc |-> IF p = "dump" THEN "echo_data" ELSE p]
    /\ nReadyFDs = [p \in Proc |-> IF p = "dump" THEN 1 ELSE 0]

Init == InitMain \/ InitReceive

\* ------------------------------------------------------------ load (client)

\* load(), lines 133-139.
load ==
    /\ pc["load"] = "load"
    /\ \E port \in Ports : privex_port' = Set(privex_port, "load", port)
    /\ line' = <<>>
    /\ result' = EXIT_SUCCESS
    /\ pc' = Set(pc, "load", "load_while")
    /\ UNCHANGED <<envVars, ioVars, fdVars, nReadyFDs, setupRet, exit, readlen,
                   sendBuff, sendBuffLen, remaining, written, tellRet, dumpLocals, hist>>

\* The loop test of line 141: result == EXIT_SUCCESS && getline(...) != -1,
\* and the call of line 143.
load_while ==
    /\ pc["load"] = "load_while"
    /\ LET called == CallsGetline(result)
           rl == IF called THEN Getline(stdin) ELSE readlen
           got == called /\ stdin # <<>>
       IN /\ readlen' = rl
          /\ line' = IF got THEN Head(stdin) ELSE line
          /\ stdin' = IF got THEN Tail(stdin) ELSE stdin
          /\ IF called /\ GotLine(rl)
             THEN /\ pc' = Set(pc, "load", "tell_privex")
                  /\ hist' = H("told", Append(hist.told, line'))
             ELSE /\ pc' = Set(pc, "load", "load_return")
                  /\ UNCHANGED hist
    /\ UNCHANGED <<envVars, wire, output, listening, fdVars, privex_port, nReadyFDs,
                   setupRet, exit, result, sendBuff, sendBuffLen, remaining, written,
                   tellRet, dumpLocals>>

\* tell_privex(line, readlen), line 89: connect if there is no connection.
tell_privex ==
    /\ pc["load"] = "tell_privex"
    /\ sendBuff' = line
    /\ sendBuffLen' = readlen
    /\ IF NeedSetup(privex_sockfd["load"], privex_epollfd["load"])
       THEN /\ pc' = Set(pc, "load", "setup_privex_client")
            /\ hist' = [hist EXCEPT !.sent = <<>>, !.writes = 0, !.connects = @ + 1,
                                    !.callConnects = 0, !.ioDone = FALSE,
                                    !.entryHandle = <<privex_sockfd["load"],
                                                      privex_epollfd["load"]>>,
                                    !.stepsOk["load"] = 0, !.opened["load"] = {}]
       ELSE /\ pc' = Set(pc, "load", "tell_remaining")
            /\ hist' = [hist EXCEPT !.sent = <<>>, !.writes = 0,
                                    !.callConnects = 0, !.ioDone = FALSE,
                                    !.entryHandle = <<privex_sockfd["load"],
                                                      privex_epollfd["load"]>>]
    /\ UNCHANGED <<envVars, ioVars, fdVars, privex_port, nReadyFDs, setupRet, exit,
                   line, readlen, result, remaining, written, tellRet, dumpLocals>>

\* setup_privex_client, line 32: socket().
setup_privex_client ==
    /\ pc["load"] = "setup_privex_client"
    /\ \E ok \in BOOLEAN :
         IF ok
         THEN LET fd == NewFd(open["load"]) IN
              /\ privex_sockfd' = Set(privex_sockfd, "load", fd)
              /\ open' = Set(open, "load", open["load"] \cup {fd})
              /\ hist' = [hist EXCEPT !.stepsOk["load"] = @ + 1,
                                      !.opened["load"] = @ \cup {fd}]
              /\ pc' = Set(pc, "load", "client_inet_pton")
              /\ UNCHANGED setupRet
         ELSE /\ privex_sockfd' = Set(privex_sockfd, "load", -1)
              /\ setupRet' = Set(setupRet, "load", EXIT_FAILURE)
              /\ hist' = H("fault", TRUE)
              /\ pc' = Set(pc, "load", "tell_setup_return")
              /\ UNCHANGED open
    /\ UNCHANGED <<envVars, ioVars, privex_epollfd, registered, privex_port, nReadyFDs,
                   exit, loadLocals, dumpLocals>>

\* Lines 37-46: inet_pton of "127.0.0.1".
client_inet_pton ==
    /\ pc["load"] = "client_inet_pton"
    /\ \E ok \in BOOLEAN :
         IF ok
         THEN /\ hist' = [hist EXCEPT !.stepsOk["load"] = @ + 1]
              /\ pc' = Set(pc, "load", "client_connect")
              /\ UNCHANGED <<privex_sockfd, open, setupRet>>
         ELSE /\ open' = Set(open, "load", Close(open["load"], privex_sockfd["load"]))
              /\ privex_sockfd' = Set(privex_sockfd, "load", -1)
              /\ setupRet' = Set(setupRet, "load", EXIT_FAILURE)
              /\ hist' = H("fault", TRUE)
              /\ pc' = Set(pc, "load", "tell_setup_return")
    /\ UNCHANGED <<envVars, ioVars, privex_epollfd, registered, privex_port, nReadyFDs,
                   exit, loadLocals, dumpLocals>>

\* Lines 48-55: connect() to 127.0.0.1:privex_port.
client_connect ==
    /\ pc["load"] = "client_connect"
    /\ \E ok \in {b \in BOOLEAN : b => CanConnect} :
         IF ok
         THEN /\ hist' = [hist EXCEPT !.stepsOk["load"] = @ + 1,
                                      !.callConnects = @ + 1]
              /\ pc' = Set(pc, "load", "client_epoll_create")
              /\ UNCHANGED <<privex_sockfd, open, setupRet>>
         ELSE /\ open' = Set(open, "load", Close(open["load"], privex_sockfd["load"]))
              /\ privex_sockfd' = Set(privex_sockfd, "load", -1)
              /\ setupRet' = Set(setupRet, "load", EXIT_FAILURE)
              /\ hist' = [hist EXCEPT !.fault = @ \/ CanConnect,
                     !.callConnects = @ + 1,
                     !.raced = @ \/ (~CanConnect /\ pc["dump"] # "exited")]
              /\ pc' = Set(pc, "load", "tell_setup_return")
    /\ UNCHANGED <<envVars, ioVars, privex_epollfd, registered, privex_port, nReadyFDs,
                   exit, loadLocals, dumpLocals>>

\* Lines 58-64: epoll_create(1).
client_epoll_create ==
    /\ pc["load"] = "client_epoll_create"
    /\ \E ok \in BOOLEAN :
         IF ok
         THEN LET fd == NewFd(open["load"]) IN
              /\ privex_epollfd' = Set(privex_epollfd, "load", fd)
              /\ open' = Set(open, "load", open["load"] \cup {fd})
              /\ hist' = [hist EXCEPT !.stepsOk["load"] = @ + 1,
                                      !.opened["load"] = @ \cup {fd}]
              /\ pc' = Set(pc, "load", "client_epoll_ctl")
              /\ UNCHANGED <<privex_sockfd, setupRet>>
         ELSE /\ privex_epollfd' = Set(privex_epollfd, "load", -1)
              /\ open' = Set(open, "load", Close(open["load"], privex_sockfd["load"]))
              /\ privex_sockfd' = Set(privex_sockfd, "load", -1)
              /\ setupRet' = Set(setupRet, "load", EXIT_FAILURE)
              /\ hist' = H("fault", TRUE)
              /\ pc' = Set(pc, "load", "tell_setup_return")
    /\ UNCHANGED <<envVars, ioVars, registered, privex_port, nReadyFDs,
                   exit, loadLocals, dumpLocals>>

\* Lines 68-83: epoll_ctl(EPOLL_CTL_ADD) of the socket for EPOLLOUT.
client_epoll_ctl ==
    /\ pc["load"] = "client_epoll_ctl"
    /\ \E ok \in BOOLEAN :
         IF ok
         THEN /\ registered' = Set(registered, "load", {privex_sockfd["load"]})
              /\ setupRet' = Set(setupRet, "load", EXIT_SUCCESS)
              /\ hist' = [hist EXCEPT !.stepsOk["load"] = @ + 1]
              /\ UNCHANGED <<privex_sockfd, privex_epollfd, open>>
         ELSE /\ Teardown("load")
              /\ setupRet' = Set(setupRet, "load", EXIT_FAILURE)
              /\ hist' = H("fault", TRUE)
    /\ pc' = Set(pc, "load", "tell_setup_return")
    /\ UNCHANGED <<envVars, ioVars, privex_port, nReadyFDs, exit, loadLocals, dumpLocals>>

\* tell_privex, lines 90-93: the value setup_privex_client returned.
tell_setup_return ==
    /\ pc["load"] = "tell_setup_return"
    /\ IF SetupFailed(setupRet["load"])
       THEN /\ tellRet' = EXIT_FAILURE
            /\ pc' = Set(pc, "load", "load_tell_return")
       ELSE /\ pc' = Set(pc, "load", "tell_remaining")
            /\ UNCHANGED tellRet
    /\ UNCHANGED <<envVars, ioVars, fdVars, privex_port, nReadyFDs, setupRet, exit,
                   line, readlen, result, sendBuff, sendBuffLen, remaining, written,
                   dumpLocals, hist>>

\* Line 96.
tell_remaining ==
    /\ pc["load"] = "tell_remaining"
    /\ remaining' = sendBuffLen
    /\ pc' = Set(pc, "load", "tell_while")
    /\ UNCHANGED <<envVars, ioVars, fdVars, privex_port, nReadyFDs, setupRet, exit,
                   line, readlen, result, sendBuff, sendBuffLen, written, tellRet,
                   dumpLocals, hist>>

\* Lines 99 and 130: the loop test, and the return once nothing remains.
tell_while ==
    /\ pc["load"] = "tell_while"
    /\ IF remaining > 0
       THEN /\ pc' = Set(pc, "load", "tell_epoll_wait")
            /\ UNCHANGED tellRet
       ELSE /\ tellRet' = EXIT_SUCCESS
            /\ pc' = Set(pc, "load", "load_tell_return")
    /\ UNCHANGED <<envVars, ioVars, fdVars, privex_port, nReadyFDs, setupRet, exit,
                   line, readlen, result, sendBuff, sendBuffLen, remaining, written,
                   dumpLocals, hist>>

\* Lines 104-115: epoll_wait; an error closes both descriptors.
tell_epoll_wait ==
    /\ pc["load"] = "tell_epoll_wait"
    /\ \E n \in EpollWaitResults(privex_epollfd["load"], open["load"]) :
         /\ nReadyFDs' = Set(nReadyFDs, "load", n)
         /\ IF WaitFailed(n)
            THEN /\ Teardown("load")
                 /\ tellRet' = EXIT_FAILURE
                 /\ hist' = [hist EXCEPT !.fatal = TRUE, !.fatalConnects = hist.connects,
                        !.ioDone = TRUE,
                        !.fault = @ \/ privex_epollfd["load"] \in open["load"],
                        !.badWait = @ \/ privex_epollfd["load"] \notin open["load"]]
                 /\ pc' = Set(pc, "load", "load_tell_return")
            ELSE /\ pc' = Set(pc, "load", IF Ready(n) THEN "tell_write" ELSE "tell_while")
                 /\ hist' = H("ioDone", TRUE)
                 /\ UNCHANGED <<fdVars, tellRet>>
    /\ UNCHANGED <<envVars, ioVars, privex_port, setupRet, exit, line, readlen, result,
                   sendBuff, sendBuffLen, remaining, written, dumpLocals>>

\* Lines 116-126: one write of everything that is left; an error closes both
\* descriptors, otherwise remaining drops by what was accepted.
tell_write ==
    /\ pc["load"] = "tell_write"
    /\ \E w \in WriteResults(remaining) :
         /\ written' = w
         /\ IF w < 0
            THEN /\ Teardown("load")
                 /\ tellRet' = EXIT_FAILURE
                 /\ hist' = [hist EXCEPT !.fatal = TRUE, !.fatalConnects = hist.connects,
                                         !.ioDone = TRUE, !.fault = TRUE]
                 /\ pc' = Set(pc, "load", "load_tell_return")
                 /\ UNCHANGED <<remaining, wire>>
            ELSE LET data == Bytes(sendBuff, WriteStart(sendBuffLen, remaining), w) IN
                 /\ remaining' = Remaining(sendBuffLen, remaining, w)
                 /\ wire' = IF collector THEN wire ELSE wire \o data
                 /\ hist' = [hist EXCEPT !.sent = @ \o data, !.ioDone = TRUE,
                                         !.writes = IF w > 0 THEN @ + 1 ELSE @]
                 /\ pc' = Set(pc, "load", "tell_while")
                 /\ UNCHANGED <<fdVars, tellRet>>
    /\ UNCHANGED <<envVars, stdin, output, listening, privex_port, nReadyFDs, setupRet,
                   exit, line, readlen, result, sendBuff, sendBuffLen, dumpLocals>>

\* load, line 143: result = tell_privex(...).
load_tell_return ==
    /\ pc["load"] = "load_tell_return"
    /\ result' = tellRet
    /\ hist' = H("tellRets", Append(hist.tellRets, tellRet))
    /\ pc' = Set(pc, "load", "load_while")
    /\ UNCHANGED <<envVars, ioVars, fdVars, privex_port, nReadyFDs, setupRet, exit,
                   line, readlen, sendBuff, sendBuffLen, remaining, written, tellRet,
                   dumpLocals>>

\* load, lines 146-150, and main's return of it (line 284).
load_return ==
    /\ pc["load"] = "load_return"
    /\ exit' = Set(exit, "load", result)
    /\ pc' = Set(pc, "load", "exited")
    /\ UNCHANGED <<envVars, ioVars, fdVars, privex_port, nReadyFDs, setupRet,
                   loadLocals, dumpLocals, hist>>

LoadNext ==
    \/ load \/ load_while \/ tell_privex
    \/ setup_privex_client \/ client_inet_pton \/ client_connect
    \/ client_epoll_create \/ client_epoll_ctl
    \/ tell_setup_return \/ tell_remaining \/ tell_while
    \/ tell_epoll_wait \/ tell_write
    \/ load_tell_return \/ load_return

\* ------------------------------------------------------------ dump (server)

\* dump(), lines 249-254.
dump ==
    /\ pc["dump"] = "dump"
    /\ \E port \in Ports : privex_port' = Set(privex_port, "dump", port)
    /\ pc' = Set(pc, "dump", "dump_epoll_wait")
    /\ UNCHANGED <<envVars, ioVars, fdVars, nReadyFDs, setupRet, exit, loadLocals,
                   dumpLocals, hist>>

\* Lines 256-273: epoll_wait on privex_epollfd; an error returns failure from
\* dump and from main (line 282); a positive count calls echo_data.
dump_epoll_wait ==
    /\ pc["dump"] = "dump_epoll_wait"
    /\ \E n \in EpollWaitResults(privex_epollfd["dump"], open["dump"]) :
         /\ nReadyFDs' = Set(nReadyFDs, "dump", n)
         /\ IF WaitFailed(n)
            THEN /\ exit' = Set(exit, "dump", EXIT_FAILURE)
                 /\ pc' = Set(pc, "dump", "exited")
                 /\ hist' = [hist EXCEPT
                        !.fault = @ \/ privex_epollfd["dump"] \in open["dump"],
                        !.badWait = @ \/ privex_epollfd["dump"] \notin open["dump"]]
            ELSE /\ pc' = Set(pc, "dump", IF Ready(n) THEN "echo_data" ELSE "dump_epoll_wait")
                 /\ UNCHANGED <<exit, hist>>
    /\ UNCHANGED <<envVars, ioVars, fdVars, privex_port, setupRet, loadLocals, dumpLocals>>

\* echo_data(), line 216: set the server up if there is no handle.
echo_data ==
    /\ pc["dump"] = "echo_data"
    /\ IF NeedSetup(privex_sockfd["dump"], privex_epollfd["dump"])
       THEN /\ pc' = Set(pc, "dump", "setup_privex_server")
            /\ hist' = [hist EXCEPT !.serverSetups = @ + 1, !.fatalPath = FALSE,
                                    !.readCalled = FALSE,
                                    !.accepted = 0,
                                    !.stepsOk["dump"] = 0, !.opened["dump"] = {}]
       ELSE /\ pc' = Set(pc, "dump", "echo_read")
            /\ hist' = [hist EXCEPT !.fatalPath = FALSE, !.accepted = 0,
                                    !.readCalled = FALSE]
    /\ UNCHANGED <<envVars, ioVars, fdVars, privex_port, nReadyFDs, setupRet, exit,
                   loadLocals, dumpLocals>>

\* setup_privex_server, lines 155-159: socket().
setup_privex_server ==
    /\ pc["dump"] = "setup_privex_server"
    /\ \E ok \in BOOLEAN :
         IF ok
         THEN LET fd == NewFd(open["dump"]) IN
              /\ privex_sockfd' = Set(privex_sockfd, "dump", fd)
              /\ open' = Set(open, "dump", open["dump"] \cup {fd})
              /\ hist' = [hist EXCEPT !.stepsOk["dump"] = @ + 1,
                                      !.opened["dump"] = @ \cup {fd}]
              /\ pc' = Set(pc, "dump", "server_bind")
              /\ UNCHANGED setupRet
         ELSE /\ privex_sockfd' = Set(privex_sockfd, "dump", -1)
              /\ setupRet' = Set(setupRet, "dump", EXIT_FAILURE)
              /\ hist' = H("fault", TRUE)
              /\ pc' = Set(pc, "dump", "echo_setup_return")
              /\ UNCHANGED open
    /\ UNCHANGED <<envVars, ioVars, privex_epollfd, registered, privex_port, nReadyFDs,
                   exit, loadLocals, dumpLocals>>

\* Lines 162-175: bind() to 127.0.0.1:privex_port, which fails while another
\* process holds the port.
server_bind ==
    /\ pc["dump"] = "server_bind"
    /\ \E ok \in {b \in BOOLEAN : b => ~collector} :
         IF ok
         THEN /\ hist' = [hist EXCEPT !.stepsOk["dump"] = @ + 1]
              /\ pc' = Set(pc, "dump", "server_listen")
              /\ UNCHANGED <<privex_sockfd, open, setupRet>>
         ELSE /\ open' = Set(open, "dump", Close(open["dump"], privex_sockfd["dump"]))
              /\ privex_sockfd' = Set(privex_sockfd, "dump", -1)
              /\ setupRet' = Set(setupRet, "dump", EXIT_FAILURE)
              /\ hist' = H("fault", hist.fault \/ ~collector)
              /\ pc' = Set(pc, "dump", "echo_setup_return")
    /\ UNCHANGED <<envVars, ioVars, privex_epollfd, registered, privex_port, nReadyFDs,
                   exit, loadLocals, dumpLocals>>

\* Lines 178-184: listen().
server_listen ==
    /\ pc["dump"] = "server_listen"
    /\ \E ok \in BOOLEAN :
         IF ok
         THEN /\ listening' = TRUE
              /\ hist' = [hist EXCEPT !.stepsOk["dump"] = @ + 1]
              /\ pc' = Set(pc, "dump", "server_epoll_create")
              /\ UNCHANGED <<privex_sockfd, open, setupRet>>
         ELSE /\ open' = Set(open, "dump", Close(open["dump"], privex_sockfd["dump"]))
              /\ privex_sockfd' = Set(privex_sockfd, "dump", -1)
              /\ setupRet' = Set(setupRet, "dump", EXIT_FAILURE)
              /\ hist' = H("fault", TRUE)
              /\ pc' = Set(pc, "dump", "echo_setup_return")
              /\ UNCHANGED listening
    /\ UNCHANGED <<envVars, stdin, wire, output, privex_epollfd, registered, privex_port,
                   nReadyFDs, exit, loadLocals, dumpLocals>>

\* Lines 187-193: epoll_create(1).
server_epoll_create ==
    /\ pc["dump"] = "server_epoll_create"
    /\ \E ok \in BOOLEAN :
         IF ok
         THEN LET fd == NewFd(open["dump"]) IN
              /\ privex_epollfd' = Set(privex_epollfd, "dump", fd)
              /\ open' = Set(open, "dump", open["dump"] \cup {fd})
              /\ hist' = [hist EXCEPT !.stepsOk["dump"] = @ + 1,
                                      !.opened["dump"] = @ \cup {fd}]
              /\ pc' = Set(pc, "dump", "server_epoll_ctl")
              /\ UNCHANGED <<privex_sockfd, setupRet, listening>>
         ELSE /\ privex_epollfd' = Set(privex_epollfd, "dump", -1)
              /\ open' = Set(open, "dump", Close(open["dump"], privex_sockfd["dump"]))
              /\ privex_sockfd' = Set(privex_sockfd, "dump", -1)
              /\ listening' = FALSE
              /\ setupRet' = Set(setupRet, "dump", EXIT_FAILURE)
              /\ hist' = H("fault", TRUE)
              /\ pc' = Set(pc, "dump", "echo_setup_return")
    /\ UNCHANGED <<envVars, stdin, wire, output, registered, privex_port, nReadyFDs,
                   exit, loadLocals, dumpLocals>>

\* Lines 197-212: epoll_ctl(EPOLL_CTL_ADD) of the socket for EPOLLIN.
server_epoll_ctl ==
    /\ pc["dump"] = "server_epoll_ctl"
    /\ \E ok \in BOOLEAN :
         IF ok
         THEN /\ registered' = Set(registered, "dump", {privex_sockfd["dump"]})
              /\ setupRet' = Set(setupRet, "dump", EXIT_SUCCESS)
              /\ hist' = [hist EXCEPT !.stepsOk["dump"] = @ + 1]
              /\ UNCHANGED <<privex_sockfd, privex_epollfd, open, listening>>
         ELSE /\ Teardown("dump")
              /\ listening' = FALSE
              /\ setupRet' = Set(setupRet, "dump", EXIT_FAILURE)
              /\ hist' = H("fault", TRUE)
    /\ pc' = Set(pc, "dump", "echo_setup_return")
    /\ UNCHANGED <<envVars, stdin, wire, output, privex_port, nReadyFDs, exit,
                   loadLocals, dumpLocals>>

\* echo_data, lines 217-220: the value setup_privex_server returned.
echo_setup_return ==
    /\ pc["dump"] = "echo_setup_return"
    /\ IF SetupFailed(setupRet["dump"])
       THEN /\ echoRet' = EXIT_FAILURE
            /\ pc' = Set(pc, "dump", "dump_echo_return")
       ELSE /\ pc' = Set(pc, "dump", "echo_read")
            /\ UNCHANGED echoRet
    /\ UNCHANGED <<envVars, ioVars, fdVars, privex_port, nReadyFDs, setupRet, exit,
                   loadLocals, readBuff, numRead, numWritten, hist>>

\* Lines 223-236: one read of up to buffLen bytes; an error closes both
\* descriptors.  The bytes come from the connection load writes to.
echo_read ==
    /\ pc["dump"] = "echo_read"
    /\ \E n \in (-1)..Min(Len(wire), buffLen) :
         /\ numRead' = n
         /\ IF n < 0
            THEN /\ Teardown("dump")
                 /\ listening' = FALSE
                 /\ echoRet' = EXIT_FAILURE
                 /\ hist' = [hist EXCEPT !.fault = TRUE, !.fatalPath = TRUE,
                                         !.readCalled = TRUE]
                 /\ pc' = Set(pc, "dump", "dump_echo_return")
                 /\ UNCHANGED <<readBuff, wire>>
            ELSE /\ readBuff' = SubSeq(wire, 1, n)
                 /\ wire' = SubSeq(wire, n + 1, Len(wire))
                 /\ pc' = Set(pc, "dump", IF n > 0 THEN "echo_fwrite" ELSE "echo_end")
                 /\ hist' = H("readCalled", TRUE)
                 /\ UNCHANGED <<fdVars, listening, echoRet>>
    /\ UNCHANGED <<envVars, stdin, output, privex_port, nReadyFDs, setupRet, exit,
                   loadLocals, numWritten>>

\* Lines 237-245: fwrite(readBuff, numRead, 1, stdout) writes one item of
\* numRead bytes; stdout takes `a` of them.  numRead != numWritten closes both
\* descriptors.
echo_fwrite ==
    /\ pc["dump"] = "echo_fwrite"
    /\ \E a \in 0..numRead :
         LET items == FwriteItems(a, numRead) IN
         /\ numWritten' = items
         /\ output' = output \o SubSeq(readBuff, 1, a)
         /\ IF numRead # items
            THEN /\ Teardown("dump")
                 /\ listening' = FALSE
                 /\ echoRet' = EXIT_FAILURE
                 /\ hist' = [hist EXCEPT !.fault = @ \/ a < numRead, !.fatalPath = TRUE,
                                         !.accepted = a]
                 /\ pc' = Set(pc, "dump", "dump_echo_return")
            ELSE /\ hist' = H("accepted", a)
                 /\ pc' = Set(pc, "dump", "echo_end")
                 /\ UNCHANGED <<fdVars, listening, echoRet>>
    /\ UNCHANGED <<envVars, stdin, wire, privex_port, nReadyFDs, setupRet, exit,
                   loadLocals, readBuff, numRead>>

\* Line 247: control reaches the closing brace of a function returning int
\* without a return statement.  The caller uses the value, which is whatever
\* the return register holds: zero or not.
echo_end ==
    /\ pc["dump"] = "echo_end"
    /\ echoRet' \in {EXIT_SUCCESS, EXIT_FAILURE}
    /\ pc' = Set(pc, "dump", "dump_echo_return")
    /\ UNCHANGED <<envVars, ioVars, fdVars, privex_port, nReadyFDs, setupRet, exit,
                   loadLocals, readBuff, numRead, numWritten, hist>>

\* dump, lines 270-272: a value other than success ends dump and main.
dump_echo_return ==
    /\ pc["dump"] = "dump_echo_return"
    /\ IF echoRet # EXIT_SUCCESS
       THEN /\ exit' = Set(exit, "dump", EXIT_FAILURE)
            /\ pc' = Set(pc, "dump", "exited")
       ELSE /\ pc' = Set(pc, "dump", "dump_epoll_wait")
            /\ UNCHANGED exit
    /\ UNCHANGED <<envVars, ioVars, fdVars, privex_port, nReadyFDs, setupRet,
                   loadLocals, dumpLocals, hist>>

DumpNext ==
    \/ dump \/ dump_epoll_wait \/ echo_data
    \/ setup_privex_server \/ server_bind \/ server_listen
    \/ server_epoll_create \/ server_epoll_ctl
    \/ echo_setup_return \/ echo_read \/ echo_fwrite \/ echo_end
    \/ dump_echo_return

Next == LoadNext \/ DumpNext

Spec == Init /\ [][Next]_vars

\* The load process on its own, which runs whenever it can (it is one thread
\* that nothing preempts for ever), with an environment in which a wait that
\* is repeated for ever sooner or later reports readiness or an error, and a
\* write that is repeated for ever sooner or later accepts a byte or fails.
tell_wait_returns == tell_epoll_wait /\ nReadyFDs'["load"] # 0
tell_write_progresses == tell_write /\ written' # 0
LoadSpec ==
    /\ Init /\ [][LoadNext]_vars
    /\ WF_vars(LoadNext)
    /\ SF_vars(tell_wait_returns) /\ SF_vars(tell_write_progresses)

\* ============================================================== properties

JointlyValid(p) ==
    \/ privex_sockfd[p] >= 0 /\ privex_epollfd[p] >= 0
    \/ privex_sockfd[p] = -1 /\ privex_epollfd[p] = -1

\* The points at which a caller can observe the handle: on return from the
\* setup functions, from tell_privex and from echo_data, between two iterations
\* of the load and dump loops, and after main has returned.
Observable(p) ==
    pc[p] \in {"tell_setup_return", "load_tell_return", "load_while", "load_return",
               "echo_setup_return", "dump_echo_return", "dump_epoll_wait", "exited"}

InTell == pc["load"] \in {"tell_privex", "setup_privex_client", "client_inet_pton",
                          "client_connect", "client_epoll_create", "client_epoll_ctl",
                          "tell_setup_return", "tell_remaining", "tell_while",
                          "tell_epoll_wait", "tell_write", "load_tell_return"}

InEcho == pc["dump"] \in {"echo_data", "setup_privex_server", "server_bind",
                          "server_listen", "server_epoll_create", "server_epoll_ctl",
                          "echo_setup_return", "echo_read", "echo_fwrite", "echo_end",
                          "dump_echo_return"}

IsPrefix(a, b) == Len(a) <= Len(b) /\ a = SubSeq(b, 1, Len(a))

\* C1 -- handle invariant: at every observable point privex_sockfd and
\* privex_epollfd of a process are both valid (>= 0) or both -1, whatever the
\* system calls returned.
C1_HandleInvariant == \A p \in Proc : Observable(p) => JointlyValid(p)

\* Reached: load back from a send that failed in a system call (both halves torn
\* down) while dump is back from an echo_data that left its handle valid.
C1_Witness ==
    /\ pc["load"] = "load_tell_return" /\ hist.fatal
    /\ privex_sockfd["load"] = -1 /\ privex_epollfd["load"] = -1
    /\ pc["dump"] = "dump_echo_return"
    /\ privex_sockfd["dump"] >= 0 /\ privex_epollfd["dump"] >= 0

\* C2 -- send guarantee: every write of tell_privex starts at the offset equal
\* to the bytes accepted so far, and when tell_privex returns success the bytes
\* its writes accepted, concatenated, are the record: none skipped, none twice.
C2_SendGuarantee ==
    /\ pc["load"] = "tell_write" =>
          /\ WriteStart(sendBuffLen, remaining) = Len(hist.sent)
          /\ IsPrefix(hist.sent, sendBuff)
    /\ (pc["load"] = "load_tell_return" /\ tellRet = EXIT_SUCCESS) =>
          /\ hist.sent = sendBuff
          /\ Len(hist.sent) = sendBuffLen

\* Reached: a record of the greatest length sent successfully in one write per
\* byte.
C2_Witness ==
    /\ pc["load"] = "load_tell_return" /\ tellRet = EXIT_SUCCESS
    /\ sendBuffLen = MaxBody + 1
    /\ hist.writes = sendBuffLen

\* C3 -- byte-exactness end to end: load and dump started by main on the same
\* port, nobody else on it, no system call made to fail, and load not refused
\* because it tried to connect before a dump that was still running had
\* started to listen: once load has returned and dump has returned or waits
\* with nothing left in flight, dump's output is the input, byte for byte.
C3_ByteExactness ==
    ( /\ start = "dump" /\ ~collector /\ ~hist.fault /\ ~hist.raced
      /\ pc["load"] = "exited"
      /\ \/ pc["dump"] = "exited"
         \/ pc["dump"] = "dump_epoll_wait" /\ wire = <<>> )
    => output = Flatten(input)

\* C4 -- lazy connection: with an empty stdin load never calls
\* setup_privex_client or tell_privex, opens no descriptor, leaves the handle
\* invalid and returns success.
C4_LazyConnection ==
    input = <<>> =>
        /\ hist.connects = 0
        /\ hist.told = <<>>
        /\ ~InTell
        /\ open["load"] = {}
        /\ privex_sockfd["load"] = -1 /\ privex_epollfd["load"] = -1
        /\ pc["load"] = "exited" => exit["load"] = EXIT_SUCCESS

\* Reached: load returned on an empty stdin.
C4_Witness == input = <<>> /\ pc["load"] = "exited" /\ exit["load"] = EXIT_SUCCESS

\* C5 as stated -- reconnect after failure: after an epoll_wait or write error
\* during the send of a record that is not the last, a new setup_privex_client
\* call is made for the next record.
C5_ReconnectForNextRecord ==
    (hist.fatal /\ pc["load"] = "exited" /\ stdin # <<>>)
    => hist.connects > hist.fatalConnects

\* C5 amended -- after an epoll_wait or write error during the send of a
\* record, both descriptors are closed and both handle fields are -1, so that no
\* write can use the stale descriptor and a later tell_privex would start with
\* setup_privex_client; load sends no further record and makes no further
\* connection attempt, and returns failure.
C5_NoSendAfterFatal ==
    /\ pc["load"] = "tell_write" => privex_sockfd["load"] \in open["load"]
    /\ hist.fatal =>
          /\ privex_sockfd["load"] = -1 /\ privex_epollfd["load"] = -1
          /\ open["load"] = {}
          /\ NeedSetup(privex_sockfd["load"], privex_epollfd["load"])
          /\ pc["load"] \in {"load_tell_return", "load_while", "load_return", "exited"}
          /\ hist.connects = hist.fatalConnects
          /\ tellRet = EXIT_FAILURE
          /\ pc["load"] = "exited" => exit["load"] = EXIT_FAILURE

\* Reached: load returned after a fatal error with a record still unread.
C5_Witness ==
    /\ hist.fatal /\ pc["load"] = "exited" /\ stdin # <<>>
    /\ privex_sockfd["load"] = -1 /\ privex_epollfd["load"] = -1

\* C6 -- lifecycle contract: a setup function returns success only if its five
\* steps succeeded, and then both descriptors are open and the socket is
\* registered; when it returns failure every descriptor it opened is closed and
\* both handle fields are -1.
C6_LifecycleContract ==
    \A p \in Proc :
        pc[p] \in {"tell_setup_return", "echo_setup_return"} =>
            IF setupRet[p] = EXIT_SUCCESS
            THEN /\ hist.stepsOk[p] = 5
                 /\ privex_sockfd[p] \in open[p] /\ privex_epollfd[p] \in open[p]
                 /\ privex_sockfd[p] # privex_epollfd[p]
                 /\ registered[p] = {privex_sockfd[p]}
            ELSE /\ hist.stepsOk[p] < 5
                 /\ hist.opened[p] \cap open[p] = {}
                 /\ privex_sockfd[p] = -1 /\ privex_epollfd[p] = -1

\* Reached: both setup functions back from a failed epoll_ctl, the last step,
\* after each had opened two descriptors.
C6_Witness ==
    /\ pc["load"] = "tell_setup_return" /\ setupRet["load"] = EXIT_FAILURE
    /\ hist.stepsOk["load"] = 4 /\ Cardinality(hist.opened["load"]) = 2
    /\ pc["dump"] = "echo_setup_return" /\ setupRet["dump"] = EXIT_FAILURE
    /\ hist.stepsOk["dump"] = 4 /\ Cardinality(hist.opened["dump"]) = 2

C8_LineSource ==
    /\ IsPrefix(hist.told, input)
    /\ stdin = SubSeq(input, Len(hist.told) + 1, Len(input))
    /\ Len(hist.told) = Len(hist.tellRets) + (IF InTell THEN 1 ELSE 0)
    /\ \A i \in 1..Len(hist.tellRets) :
          hist.tellRets[i] # EXIT_SUCCESS =>
              /\ i = Len(hist.told)
              /\ ~InTell \/ pc["load"] = "load_tell_return"
    /\ hist.connects <= Len(hist.told)
    /\ pc["load"] = "exited" =>
          /\ exit["load"] = EXIT_SUCCESS <=>
                \A i \in 1..Len(hist.tellRets) : hist.tellRets[i] = EXIT_SUCCESS
          /\ exit["load"] = EXIT_SUCCESS => stdin = <<>>

\* Reached: load returned failure after the first of two records failed, the
\* second one never read.
C8_Witness ==
    /\ pc["load"] = "exited" /\ exit["load"] = EXIT_FAILURE
    /\ Len(input) = 2 /\ hist.told = <<input[1]>>
    /\ hist.tellRets = <<EXIT_FAILURE>>

\* C9 -- server lazy creation: in a run of dump from main, the first iteration
\* of the loop calls setup_privex_server, so dump cannot have left the loop
\* without having called it.
C9_ServerLazyCreation ==
    (start = "dump" /\ pc["dump"] = "exited") => hist.serverSetups >= 1

\* C10 -- dump has no success exit: dump never returns success; it has left the
\* loop only after an epoll_wait error or after echo_data returned a value
\* other than success; echo_data runs only after a positive ready count.
C10_DumpNoSuccessExit ==
    /\ exit["dump"] # EXIT_SUCCESS
    /\ pc["dump"] = "exited" => exit["dump"] = EXIT_FAILURE
    /\ pc["dump"] = "exited" =>
          \/ nReadyFDs["dump"] = -1
          \/ nReadyFDs["dump"] > 0 /\ echoRet # EXIT_SUCCESS
    /\ InEcho => nReadyFDs["dump"] > 0

\* Reached: dump left the loop because echo_data failed, after an earlier
\* echo_data had forwarded bytes and the loop had gone round.
C10_Witness ==
    /\ pc["dump"] = "exited" /\ nReadyFDs["dump"] > 0 /\ echoRet # EXIT_SUCCESS
    /\ output # <<>> /\ hist.accepted = 0

HandleClosed(p) ==
    /\ privex_sockfd[p] = -1 /\ privex_epollfd[p] = -1
    /\ open[p] = {}

InSendLoop == pc["load"] \in {"tell_while", "tell_epoll_wait", "tell_write"}

\* C13 -- send termination: with waits that sooner or later report readiness
\* or an error, and writes that sooner or later accept a byte or fail, every
\* tell_privex call returns; a ready count of 0 and a write of 0 bytes lead
\* back to the loop test with remaining and the handle as they were.
C13_SendTermination ==
    /\ (pc["load"] = "tell_privex") ~> (pc["load"] = "load_tell_return")
    /\ [][ /\ (pc["load"] = "tell_epoll_wait" /\ nReadyFDs'["load"] = 0)
              => /\ pc'["load"] = "tell_while"
                 /\ UNCHANGED <<remaining, privex_sockfd, privex_epollfd, open>>
           /\ (pc["load"] = "tell_write" /\ written' = 0)
              => /\ pc'["load"] = "tell_while"
                 /\ UNCHANGED <<remaining, privex_sockfd, privex_epollfd, open>> ]_vars

\* Reached: a send of the longest record returned success after writes that
\* accepted one byte at a time, each behind its own wait.
C13_Witness ==
    /\ pc["load"] = "load_tell_return" /\ tellRet = EXIT_SUCCESS
    /\ sendBuffLen = MaxBody + 1 /\ hist.writes = sendBuffLen
    /\ nReadyFDs["load"] = 1 /\ written = 1

\* C14 -- no retry inside one send: one tell_privex call makes at most one
\* connect(), and setup_privex_client is entered only from the test at the
\* head of tell_privex; when the setup failed, tell_privex is back in load
\* with failure, the handle -1/-1 and nothing open, having issued no
\* epoll_wait and no write, so no byte of the record was accepted.
C14_NoRetryInsideSend ==
    /\ hist.callConnects <= 1
    /\ pc["load"] \in {"tell_remaining", "tell_while", "tell_epoll_wait", "tell_write"}
          => setupRet["load"] = EXIT_SUCCESS
    /\ (pc["load"] = "load_tell_return" /\ setupRet["load"] # EXIT_SUCCESS) =>
          /\ tellRet = EXIT_FAILURE
          /\ HandleClosed("load")
          /\ ~hist.ioDone
          /\ hist.sent = <<>>

\* Reached: the no-peer case -- the one connect() of the call was refused and
\* tell_privex has returned.
C14_Witness ==
    /\ pc["load"] = "load_tell_return" /\ setupRet["load"] # EXIT_SUCCESS
    /\ hist.callConnects = 1 /\ ~CanConnect /\ ~hist.fault

\* C15 -- connection reuse: a tell_privex call entered with a valid handle
\* that returns success made no connect() and left privex_sockfd and
\* privex_epollfd as they were on entry, still open; a load run that ends in
\* success after at least one record called setup_privex_client exactly once.
C15_ConnectionReuse ==
    /\ (/\ pc["load"] = "load_tell_return" /\ tellRet = EXIT_SUCCESS
        /\ hist.entryHandle[1] >= 0 /\ hist.entryHandle[2] >= 0) =>
          /\ hist.callConnects = 0
          /\ <<privex_sockfd["load"], privex_epollfd["load"]>> = hist.entryHandle
          /\ {privex_sockfd["load"], privex_epollfd["load"]} = open["load"]
    /\ (pc["load"] = "exited" /\ exit["load"] = EXIT_SUCCESS /\ input # <<>>) =>
          /\ hist.connects = 1
          /\ hist.told = input

\* Reached: the second record of a run has been sent over the connection the
\* first record opened.
C15_Witness ==
    /\ pc["load"] = "load_tell_return" /\ tellRet = EXIT_SUCCESS
    /\ Len(hist.told) = 2 /\ hist.entryHandle[1] >= 0 /\ hist.connects = 1
    /\ hist.sent = sendBuff

\* Control is inside a setup function after its socket() succeeded and before
\* its epoll_create() has succeeded (lines 33-58 and 160-187).
MidSetup(p) ==
    pc[p] \in {"client_inet_pton", "client_connect", "client_epoll_create",
               "server_bind", "server_listen", "server_epoll_create"}

\* C16 -- strict joint validity, as stated: in every reachable state, those
\* inside the setup functions included, privex_sockfd and privex_epollfd are
\* both valid or both -1.
C16_StrictJointValidity == \A p \in Proc : JointlyValid(p)

\* C16 -- as the code has it: inside a setup function, from the successful
\* socket() until epoll_create() succeeds, privex_sockfd is valid and open
\* while privex_epollfd is still -1; at every other step the two are both valid
\* or both -1, and privex_epollfd is never valid while privex_sockfd is -1.
C16_JointValidityOutsideSetup ==
    \A p \in Proc :
        /\ IF MidSetup(p)
           THEN privex_sockfd[p] \in open[p] /\ privex_epollfd[p] = -1
           ELSE JointlyValid(p)
        /\ privex_epollfd[p] >= 0 => privex_sockfd[p] >= 0

\* Reached: both processes are between socket() and epoll_create(), each with a
\* live socket and no readiness handle yet.
C16_Witness ==
    /\ pc["load"] = "client_connect"
    /\ privex_sockfd["load"] >= 0 /\ privex_epollfd["load"] = -1
    /\ pc["dump"] = "server_listen"
    /\ privex_sockfd["dump"] >= 0 /\ privex_epollfd["dump"] = -1

\* C17 -- readiness gating: tell_privex reaches its write only from an
\* epoll_wait that returned a positive count, makes one write per such wait,
\* and that write asks for all the bytes not yet sent; a count of 0 goes back
\* to the loop test with remaining and the handle as they were; dump is inside
\* echo_data only after a positive count.
C17_ReadinessGating ==
    /\ pc["load"] = "tell_write" =>
          /\ nReadyFDs["load"] > 0
          /\ remaining = sendBuffLen - Len(hist.sent)
          /\ WriteResults(remaining) = (-1)..(sendBuffLen - Len(hist.sent))
    /\ InEcho => nReadyFDs["dump"] > 0
    /\ [][ /\ (pc'["load"] = "tell_write" /\ pc["load"] # "tell_write")
              => pc["load"] = "tell_epoll_wait" /\ nReadyFDs'["load"] > 0
           /\ (pc["load"] = "tell_write" /\ pc'["load"] # "tell_write")
              => pc'["load"] \in {"tell_while", "load_tell_return"}
           /\ (pc["load"] = "tell_epoll_wait" /\ pc'["load"] # "tell_epoll_wait"
                 /\ nReadyFDs'["load"] = 0)
              => /\ pc'["load"] = "tell_while"
                 /\ UNCHANGED <<remaining, wire>>
                 /\ privex_sockfd'["load"] = privex_sockfd["load"]
                 /\ privex_epollfd'["load"] = privex_epollfd["load"]
                 /\ open'["load"] = open["load"]
           /\ (pc'["dump"] = "echo_data" /\ pc["dump"] # "echo_data")
              => pc["dump"] = "dump_epoll_wait" /\ nReadyFDs'["dump"] > 0 ]_vars

\* Reached: load is at its write for the rest of a record after a first
\* partial write, and dump, having forwarded a byte, is at echo_data's read
\* again after a further wait of its loop.
C17_Witness ==
    /\ pc["load"] = "tell_write" /\ nReadyFDs["load"] = 1
    /\ hist.writes = 1 /\ remaining > 0
    /\ pc["dump"] = "echo_read" /\ nReadyFDs["dump"] = 1
    /\ hist.serverSetups = 1 /\ output # <<>>

Held(p) == {privex_sockfd[p], privex_epollfd[p]} \ {-1}

\* C18 -- no orphaned descriptors: at every operation boundary the descriptors
\* a process has opened and not closed are exactly those in privex_sockfd and
\* privex_epollfd, so at most one socket and one readiness handle are open and
\* at most the socket is registered; a setup call starts with nothing open, so
\* it never overwrites a field that names an open descriptor.
C18_NoOrphanedDescriptors ==
    \A p \in Proc :
        /\ Observable(p) =>
              /\ open[p] = Held(p)
              /\ registered[p] \subseteq {privex_sockfd[p]} \cap open[p]
              /\ Cardinality(registered[p]) <= 1
        /\ pc[p] \in {"setup_privex_client", "setup_privex_server"} =>
              open[p] = {} /\ registered[p] = {}

\* Reached: load is back from a send whose error closed the two descriptors its
\* setup had opened, and dump is back from echo_data holding its two, the
\* socket registered.
C18_Witness ==
    /\ pc["load"] = "load_tell_return" /\ hist.fatal
    /\ Cardinality(hist.opened["load"]) = 2 /\ open["load"] = {}
    /\ pc["dump"] = "dump_echo_return"
    /\ Cardinality(open["dump"]) = 2 /\ registered["dump"] = {privex_sockfd["dump"]}

\* C19 -- system calls only on valid handles: every epoll_wait is issued on a
\* valid privex_epollfd and every read and write on a valid privex_sockfd, in
\* both modes.
C19_SyscallsOnValidHandles ==
    /\ ~hist.badWait
    /\ pc["load"] = "tell_epoll_wait" => privex_epollfd["load"] \in open["load"]
    /\ pc["load"] = "tell_write" => privex_sockfd["load"] \in open["load"]
    /\ pc["dump"] = "dump_epoll_wait" => privex_epollfd["dump"] \in open["dump"]
    /\ pc["dump"] = "echo_read" => privex_sockfd["dump"] \in open["dump"]

\* C20 -- offset bounds: in tell_privex's loop, with writes that accept at most
\* what was asked, 0 <= remaining <= sendBuffLen, remaining never grows, and the
\* start index of each write, sendBuffLen - remaining, is inside the record.
C20_OffsetBounds ==
    /\ InSendLoop => 0 <= remaining /\ remaining <= sendBuffLen
    /\ pc["load"] = "tell_write" =>
          /\ 0 <= WriteStart(sendBuffLen, remaining)
          /\ WriteStart(sendBuffLen, remaining) < sendBuffLen
    /\ [][ (InSendLoop /\ InSendLoop') => remaining' <= remaining ]_vars

\* Reached: the third write of a three-byte record, starting at its last byte.
C20_Witness ==
    /\ pc["load"] = "tell_write" /\ sendBuffLen = MaxBody + 1
    /\ remaining = 1 /\ WriteStart(sendBuffLen, remaining) = MaxBody
    /\ hist.writes = 2

====
